---- MODULE Spec2Model ----
(***************************************************************************)
(* Team logo combiner: the resilient fetcher (download_with_retry), the    *)
(* process-wide circuit breaker that wraps it, the compositor              *)
(* (merge_images_from_urls) and the HTTP endpoint (POST /create_avatar).   *)
(*                                                                         *)
(* Units: sleep delays are in milliseconds (base_delay 1.0 -> 1000); the   *)
(* wall clock read by the breaker (time.time()) is in seconds.             *)
(***************************************************************************)
EXTENDS Integers, Sequences, FiniteSets, TLC

\* ------------------------------------------------------------------ bounds
\* direct calls of download_with_retry use max_retries in -1..MaxRetriesArg
MaxRetriesArg == 2
\* number of top-level calls (direct calls, requests) in one behaviour
MaxCalls == 2
\* number of clock advances in one behaviour
MaxTicks == 1
\* number of sample points of random.uniform(0.1, 0.3)
JitterSamples == 2
\* number of requests in one behaviour of the breaker specification
MaxBreakerCalls == 6
\* sanitize_image_data: number of bytes after the signature (if any)
MaxBodyLen == 4
\* calls of create_fallback_logo in one run
MaxFallbackCalls == 3
\* requests served at the same time, each by a thread of its own
MaxThreads == 3

\* ------------------------------------------------------- program constants
failure_threshold == 5
recovery_timeout == 60
DefaultBaseDelay == 1000
MergeMaxRetries == 3
MergeBaseDelay == 2000

\* self.last_failure_time = None
None == 0 - 1

VARIABLES
    HAS_ENHANCED_LOGGING,  \* src.core importable: decorators and Image*Error in use
    HAS_ERROR_HANDLER,     \* error_handler importable: APIError classes in use
    failure_count, last_failure_time, state,   \* the process-wide _circuit_breaker
    now,                   \* time.time(), seconds
    ticks,                 \* clock advances so far
    calls,                 \* top-level calls so far
    pc,                    \* position of the (single, synchronous) thread
    entry,                 \* entry point of the running top-level call
    slot,                  \* logo slot being fetched (0: direct download call)
    url,                   \* download_with_retry: url
    max_retries, base_delay, attempt,          \* download_with_retry: arguments, loop counter
    gets, sleeps,          \* calls of requests.get / time.sleep made by the running download
    hist,                  \* what each GET of the running download answered
    last_delay,            \* total_delay of the latest time.sleep
    last_error,            \* the exception of the latest failed GET ("" when none)
    dl_result,             \* what the latest download_with_retry call returned or raised
    url1, url2,            \* merge_images_from_urls: arguments
    images,                \* the cropped logos obtained so far, slot 1 first
    decoded,               \* per response consumed: process_image_response gave an image
    merge_result,          \* what the latest merge_images_from_urls call returned or raised
    req,                   \* POST /create_avatar: the parsed JSON body
    response,              \* POST /create_avatar: the response sent
    seen,                  \* (body, exception type, response) of the requests answered after
                           \* an unexpected exception of merge_images_from_urls
    failed_run,            \* top-level calls that failed since the last one that succeeded
    trial,                 \* the running top-level call was admitted by an OPEN breaker
                           \* whose cooldown had passed
    image_data,            \* sanitize_image_data: argument
    sanitized_data,        \* sanitize_image_data: what it returned
    image1_cropped, image2_cropped,  \* the compositing step alone: the two cropped logos
    new_image,             \* the compositing step alone: (state of the background file,
                           \* what it returned) for the backgrounds tried so far
    fallback_log,          \* create_fallback_logo: (team_id, fill) of the calls so far
    image_in,              \* crop_transparent_border: argument (image)
    cropped_image,         \* crop_transparent_border: what it returned
    threads                \* concurrent requests: per thread, its position in
                           \* ImageProcessingCircuitBreaker.call, the outcome of its
                           \* func and the failure_count it has loaded

brk == <<failure_count, last_failure_time, state>>
cfg == <<HAS_ENHANCED_LOGGING, HAS_ERROR_HANDLER>>
dlargs == <<url, max_retries, base_delay>>
dlvars == <<attempt, gets, sleeps, hist, last_delay, last_error>>
mergevars == <<url1, url2, images, decoded, merge_result>>
appvars == <<req, response, seen>>
fnvars == <<image_data, sanitized_data, image1_cropped, image2_cropped,
            new_image, fallback_log, image_in, cropped_image, threads>>
progvars == <<cfg, brk, now, ticks, calls, pc, entry, slot, dlargs, dlvars, dl_result,
              mergevars, appvars, failed_run, trial>>
vars == <<progvars, fnvars>>

\* ------------------------------------------------------------ text helpers
\* Strings are sequences of tokens; an f-string is a concatenation.
Schemes == {"http://", "https://", "ftp://"}

RECURSIVE LastSegment(_)
\* the text after the last "/" (a scheme token ends in "/")
LastSegment(s) ==
    IF s = <<>> THEN <<>>
    ELSE IF s[Len(s)] = "/" \/ s[Len(s)] \in Schemes THEN <<>>
    ELSE Append(LastSegment(SubSeq(s, 1, Len(s) - 1)), s[Len(s)])

\* os.path.basename(url)
Basename(u) == LastSegment(u)

\* ------------------------------------------------------------- exceptions
Exc(t, m) == [type |-> t, msg |-> m]
NoExc == Exc("", <<>>)

\* class ImageProcessingError and its subclasses
ImageProcessingErrors ==
    {"ImageProcessingError", "ImageDownloadError", "ImageValidationError",
     "ImageCombineError", "ImageSaveError", "ConfigurationError"}

\* results of a call: a returned value or a raised exception
Return(v) == [kind |-> "return", value |-> v, exc |-> NoExc]
ReturnNone == [kind |-> "return_none", value |-> <<>>, exc |-> NoExc]
Raise(e) == [kind |-> "raise", value |-> <<>>, exc |-> e]
NoResult == [kind |-> "none", value |-> <<>>, exc |-> NoExc]

\* --------------------------------------------------------- circuit breaker
Breaker == [failure_count |-> failure_count,
            last_failure_time |-> last_failure_time,
            state |-> state]

FreshBreaker == [failure_count |-> 0, last_failure_time |-> None, state |-> "CLOSED"]

\* a breaker whose cooldown ends as soon as recovery_timeout seconds have passed
CallAdmitAtTimeout(b, t) ==
    IF b.state = "OPEN"
    THEN IF t - b.last_failure_time >= recovery_timeout
         THEN [admitted |-> TRUE, b |-> [b EXCEPT !.state = "HALF_OPEN"]]
         ELSE [admitted |-> FALSE, b |-> b]
    ELSE [admitted |-> TRUE, b |-> b]

\* ImageProcessingCircuitBreaker.call, up to the try: admitted or rejected
CallAdmit(b, t) ==
    IF b.state = "OPEN"
    THEN IF t - b.last_failure_time > recovery_timeout
         THEN [admitted |-> TRUE, b |-> [b EXCEPT !.state = "HALF_OPEN"]]
         ELSE [admitted |-> FALSE, b |-> b]
    ELSE [admitted |-> TRUE, b |-> b]

\* the call of a wrapped function about to be made is admitted by an OPEN breaker
AdmittedAsTrial ==
    HAS_ENHANCED_LOGGING /\ state = "OPEN" /\ CallAdmit(Breaker, now).admitted

on_success(b) == [b EXCEPT !.failure_count = 0, !.state = "CLOSED"]

\* a breaker that opens only once the count is above the threshold
on_failure_above(b, t) ==
    [b EXCEPT !.failure_count = b.failure_count + 1,
              !.last_failure_time = t,
              !.state = IF b.failure_count + 1 > failure_threshold
                        THEN "OPEN" ELSE b.state]

on_failure(b, t) ==
    [b EXCEPT !.failure_count = b.failure_count + 1,
              !.last_failure_time = t,
              !.state = IF b.failure_count + 1 >= failure_threshold
                        THEN "OPEN" ELSE b.state]

BreakerOpenError == Exc("ImageProcessingError", <<"Circuit breaker is OPEN">>)

\* a wrapper that lets every exception through as it is
WrapExitUnwrapped(b, t, operation_name, r) ==
    IF r.kind = "raise" THEN [b |-> on_failure(b, t), r |-> r]
    ELSE [b |-> on_success(b), r |-> r]

\* breaker.call after func returned or raised, then the handlers of the
\* handle_image_processing_errors wrapper
WrapExit(b, t, operation_name, r) ==
    IF r.kind = "raise"
    THEN [b |-> on_failure(b, t),
          r |-> IF r.exc.type \in ImageProcessingErrors
                THEN r
                ELSE Raise(Exc("ImageProcessingError",
                               <<"Unexpected error in ", operation_name, ": ">> \o r.exc.msg))]
    ELSE [b |-> on_success(b), r |-> r]

SetBreaker(b) ==
    /\ failure_count' = b.failure_count
    /\ last_failure_time' = b.last_failure_time
    /\ state' = b.state

\* ------------------------------------------------------ sanitize_image_data
\* bytes are integers 0..255, a bytes object is a sequence of them
PNG_SIGNATURE == <<137, 80, 78, 71, 13, 10, 26, 10>>       \* b'\x89PNG\r\n\x1a\n'
JPEG_SIGNATURE == <<255, 216, 255>>                        \* b'\xff\xd8\xff'

\* bytes.startswith
StartsWith(data, sig) ==
    Len(data) >= Len(sig) /\ SubSeq(data, 1, Len(sig)) = sig

\* b'\x00' in image_data
HasNull(data) == \E i \in 1..Len(data) : data[i] = 0

\* a stripping that drops every null byte, wherever it is
DropAllNulls(data) == SelectSeq(data, LAMBDA b : b # 0)

RECURSIVE RStripNull(_)
\* image_data.rstrip(b'\x00')
RStripNull(data) ==
    IF data # <<>> /\ data[Len(data)] = 0
    THEN RStripNull(SubSeq(data, 1, Len(data) - 1))
    ELSE data

RECURSIVE LastNonNull(_, _)
\* lines 98-100: the while loop, from index i down (indices from 1; 0: none)
LastNonNull(data, i) ==
    IF i >= 1 /\ data[i] = 0 THEN LastNonNull(data, i - 1) ELSE i

\* the None the docstring speaks of ("or None if corrupted beyond repair"): not
\* a bytes object (no byte is negative)
NoBytes == <<None>>

\* a sanitizer that gives up on nulls scattered through an unrecognized format
SanitizeGivesUp(image_data_) ==
    IF image_data_ = <<>> THEN image_data_
    ELSE IF ~HasNull(image_data_) THEN image_data_
    ELSE IF StartsWith(image_data_, PNG_SIGNATURE) THEN image_data_
    ELSE IF StartsWith(image_data_, JPEG_SIGNATURE) THEN RStripNull(image_data_)
    ELSE IF image_data_[Len(image_data_)] = 0
    THEN SubSeq(image_data_, 1, LastNonNull(image_data_, Len(image_data_)))
    ELSE NoBytes

\* a sanitizer that strips trailing nulls whatever the signature
SanitizeAnyFormat(image_data_) == RStripNull(image_data_)

sanitize_image_data(image_data_) ==
    IF image_data_ = <<>> THEN image_data_                       \* if not image_data
    ELSE IF ~HasNull(image_data_) THEN image_data_
    ELSE IF StartsWith(image_data_, PNG_SIGNATURE) THEN image_data_
    ELSE IF StartsWith(image_data_, JPEG_SIGNATURE)
    THEN IF Len(RStripNull(image_data_)) < Len(image_data_)
         THEN RStripNull(image_data_)
         ELSE image_data_
    ELSE LET last_non_null == LastNonNull(image_data_, Len(image_data_))
             trailing_nulls == Len(image_data_) - last_non_null
         IN IF trailing_nulls > 0
            THEN SubSeq(image_data_, 1, last_non_null)
            ELSE image_data_

\* the byte values a body is made of: null and one that is not
BodyBytes == {0, 65}

RECURSIVE SeqsUpTo(_, _)
\* the sequences over S of length at most n
SeqsUpTo(S, n) ==
    IF n = 0 THEN {<<>>}
    ELSE SeqsUpTo(S, n - 1) \cup {Append(q, x) : q \in SeqsUpTo(S, n - 1), x \in S}

\* what a response body may start with: a PNG or JPEG signature, a PNG signature
\* cut short, or nothing
Prefixes == {PNG_SIGNATURE, JPEG_SIGNATURE, SubSeq(PNG_SIGNATURE, 1, 7), <<>>}

SanitizeInputs == {p \o b : p \in Prefixes, b \in SeqsUpTo(BodyBytes, MaxBodyLen)}

\* ------------------------------------------------------ download_with_retry
\* the status codes raise_for_status raises for, at the edges of the two classes
ErrStatuses == {400, 499, 500}

\* what e.response is: a requests.Response, or the MagicMock of the test suite
Responses == {"real", "mock"}

\* bool(e.response): a requests.Response is truthy iff its status is below 400
\* (Response.__bool__ returns Response.ok), a test double (MagicMock) is always
\* truthy, a missing response (None) is falsy
Truthy(resp, status) ==
    CASE resp = "real" -> status < 400
      [] resp = "mock" -> TRUE
      [] OTHER -> FALSE

\* line 152: e.response and 400 <= e.response.status_code < 500, the
\* response a requests.Response or a test double
TreatedAsClientError(resp, status) ==
    Truthy(resp, status) /\ 400 <= status /\ status < 500

\* a fetcher that gives up one attempt early
IsFinalAttemptEarly(a, mr) == a + 1 >= mr

\* a fetcher whose test for the final attempt is one too high
IsFinalAttemptLate(a, mr) == a = mr + 1

\* lines 158, 170: attempt == max_retries
IsFinalAttempt(a, mr) == a = mr

\* a fetcher that does not sleep before its last attempt
SleepsBeforeNextSkipLast(a, mr) == a + 1 < mr

\* line 180: if attempt < max_retries
SleepsBeforeNext(a, mr) == a < mr

\* what the answer of a GET is, whatever the code makes of it
OutcomeClass(kind, status) ==
    CASE kind = "ok" -> "success"
      [] kind = "http" /\ status >= 400 /\ status < 500 -> "client"
      [] kind = "http" /\ status >= 500 /\ status < 600 -> "retryable"
      [] kind \in {"Timeout", "ConnectionError"} -> "retryable"
      [] OTHER -> "other"

\* status = e.response.status_code if e.response else 'unknown'
StatusText(resp, status) == IF Truthy(resp, status) THEN ToString(status) ELSE "unknown"

\* raise ImageDownloadError(error_msg) from e, or the bare raise of the legacy build
DownloadRaise(msg, original) ==
    IF HAS_ENHANCED_LOGGING THEN Raise(Exc("ImageDownloadError", msg))
    ELSE Raise(Exc(original, <<original>>))

\* the sample points of random.uniform(0.1, 0.3), in percent
JitterPcts == {10 + (20 * i) \div (JitterSamples - 1) : i \in 0..(JitterSamples - 1)}

RECURSIVE Pow2(_)
Pow2(n) == IF n <= 0 THEN 1 ELSE 2 * Pow2(n - 1)

\* a backoff that grows by base_delay per attempt instead of doubling
DelayLinear(bd, a) == bd * (a + 1)

\* delay = base_delay * (2 ** attempt)
Delay(bd, a) == bd * Pow2(a)

\* total_delay = delay + random.uniform(0.1, 0.3) * delay
TotalDelay(bd, a, pct) == Delay(bd, a) + (pct * Delay(bd, a)) \div 100

\* requests.get can only answer for an http(s) URL; any other raises
\* MissingSchema / InvalidSchema (RequestException)
Fetchable(u) == u # <<>> /\ u[1] \in {"http://", "https://"}

\* where control goes when the running download_with_retry call ends
AfterDownload(e) == IF e = "download" THEN "done" ELSE "slot_done"

\* the decorated download_with_retry has returned or raised
DlFinish(r) ==
    LET out == IF HAS_ENHANCED_LOGGING
               THEN WrapExit(Breaker, now, "download_image", r)
               ELSE [b |-> Breaker, r |-> r]
    IN /\ SetBreaker(out.b)
       /\ dl_result' = out.r
       /\ pc' = AfterDownload(entry)

\* a call of the decorated download_with_retry(u, max_retries=mr, base_delay=bd)
\* made by entry point e for slot s, the breaker being b
DlBegin(b, e, s, u, mr, bd) ==
    LET adm == IF HAS_ENHANCED_LOGGING THEN CallAdmit(b, now)
               ELSE [admitted |-> TRUE, b |-> b]
        \* what the body does before its first GET
        early == IF mr + 1 <= 0
                 THEN ReturnNone       \* range(max_retries + 1) is empty: return None
                 ELSE IF u.type # "str"
                 THEN \* line 135: os.path.basename(url) of a non-string
                      Raise(Exc("TypeError", <<"expected str, bytes or os.PathLike object">>))
                 ELSE NoResult
        out == IF HAS_ENHANCED_LOGGING
               THEN WrapExit(adm.b, now, "download_image", early)
               ELSE [b |-> adm.b, r |-> early]
    IN /\ slot' = s
       /\ url' = u.text /\ max_retries' = mr /\ base_delay' = bd
       /\ attempt' = 0 /\ gets' = 0 /\ sleeps' = 0 /\ hist' = <<>>
       /\ last_delay' = 0 /\ last_error' = ""
       /\ IF ~adm.admitted
          THEN \* raise ImageProcessingError("Circuit breaker is OPEN"), before the try
               /\ SetBreaker(adm.b)
               /\ dl_result' = Raise(BreakerOpenError)
               /\ pc' = AfterDownload(e)
          ELSE IF early # NoResult
          THEN /\ SetBreaker(out.b)
               /\ dl_result' = out.r
               /\ pc' = AfterDownload(e)
          ELSE /\ SetBreaker(adm.b)
               /\ dl_result' = NoResult
               /\ pc' = "dl_get"

\* no download is running
ClearDl ==
    /\ slot' = 0 /\ url' = <<>> /\ max_retries' = 0 /\ base_delay' = 0
    /\ attempt' = 0 /\ gets' = 0 /\ sleeps' = 0 /\ hist' = <<>>
    /\ last_delay' = 0 /\ last_error' = ""
    /\ dl_result' = NoResult

StrUrl(t) == [type |-> "str", text |-> t]
NoUrl == [type |-> "NoneType", text |-> <<>>]
DirectUrl == StrUrl(<<"http://", "example.com", "/", "test", ".png">>)

NoRequest == [type |-> "none", keys |-> {}, val |-> <<>>, items |-> <<>>]
NoResponse == [status |-> 0, mimetype |-> "", error |-> <<>>, type |-> ""]

ClearMerge ==
    /\ url1' = NoUrl /\ url2' = NoUrl /\ images' = <<>> /\ decoded' = <<>>
    /\ merge_result' = NoResult

ClearApp == req' = NoRequest /\ response' = NoResponse

\* a caller invokes download_with_retry directly
StartDownload ==
    /\ pc = "idle" /\ calls < MaxCalls
    /\ calls' = calls + 1
    /\ entry' = "download"
    /\ \E mr \in (0 - 1)..MaxRetriesArg :
          DlBegin(Breaker, "download", 0, DirectUrl, mr, DefaultBaseDelay)
    /\ trial' = AdmittedAsTrial
    /\ UNCHANGED <<cfg, fnvars, failed_run, now, ticks, mergevars, appvars>>

\* requests.get answers below 400: return response
GetSuccess ==
    /\ pc = "dl_get" /\ Fetchable(url)
    /\ gets' = gets + 1
    /\ hist' = Append(hist, "success")
    /\ DlFinish(Return([id |-> gets + 1]))
    /\ UNCHANGED <<cfg, fnvars, failed_run, trial, now, ticks, calls, entry, slot, dlargs, attempt, sleeps,
                   last_delay, last_error, mergevars, appvars>>

\* raise_for_status (or requests.get) raises HTTPError: lines 150-167
GetHttpError ==
    /\ pc = "dl_get" /\ Fetchable(url)
    /\ \E resp \in Responses, status \in ErrStatuses :
          /\ gets' = gets + 1
          /\ hist' = Append(hist, OutcomeClass("http", status))
          /\ last_error' = "HTTPError"
          /\ IF TreatedAsClientError(resp, status)
             THEN DlFinish(DownloadRaise(
                      <<"Client error ", ToString(status), " for ">> \o Basename(url)
                          \o <<" - not retrying">>, "HTTPError"))
             ELSE IF IsFinalAttempt(attempt, max_retries)
             THEN DlFinish(DownloadRaise(
                      <<"Server error ", StatusText(resp, status), " for ">> \o Basename(url)
                          \o <<" - final attempt failed">>, "HTTPError"))
             ELSE /\ pc' = "dl_sleep"
                  /\ UNCHANGED <<brk, dl_result>>
    /\ UNCHANGED <<cfg, fnvars, failed_run, trial, now, ticks, calls, entry, slot, dlargs, attempt, sleeps,
                   last_delay, mergevars, appvars>>

\* requests.get raises Timeout or ConnectionError: lines 169-177
GetNetworkError ==
    /\ pc = "dl_get" /\ Fetchable(url)
    /\ \E kind \in {"Timeout", "ConnectionError"} :
          /\ gets' = gets + 1
          /\ hist' = Append(hist, OutcomeClass(kind, 0))
          /\ last_error' = kind
          /\ IF IsFinalAttempt(attempt, max_retries)
             THEN DlFinish(DownloadRaise(
                      <<"Network error for ">> \o Basename(url) \o <<" after ">>
                          \o <<ToString(max_retries + 1), " attempts: ", kind>>, kind))
             ELSE /\ pc' = "dl_sleep"
                  /\ UNCHANGED <<brk, dl_result>>
    /\ UNCHANGED <<cfg, fnvars, failed_run, trial, now, ticks, calls, entry, slot, dlargs, attempt, sleeps,
                   last_delay, mergevars, appvars>>

\* requests.get raises another RequestException (MissingSchema, TooManyRedirects,
\* ...): no handler of download_with_retry catches it
GetOtherError ==
    /\ pc = "dl_get"
    /\ gets' = gets + 1
    /\ hist' = Append(hist, OutcomeClass("RequestException", 0))
    /\ last_error' = "RequestException"
    /\ DlFinish(Raise(Exc("RequestException", <<"RequestException">>)))
    /\ UNCHANGED <<cfg, fnvars, failed_run, trial, now, ticks, calls, entry, slot, dlargs, attempt, sleeps,
                   last_delay, mergevars, appvars>>

\* lines 179-187: time.sleep(total_delay), then the next iteration, or return
\* None once range(max_retries + 1) is used up
Backoff ==
    /\ pc = "dl_sleep"
    /\ \E pct \in JitterPcts :
          IF SleepsBeforeNext(attempt, max_retries)
          THEN /\ last_delay' = TotalDelay(base_delay, attempt, pct)
               /\ sleeps' = sleeps + 1
          ELSE UNCHANGED <<last_delay, sleeps>>
    /\ IF attempt + 1 <= max_retries
       THEN /\ attempt' = attempt + 1
            /\ pc' = "dl_get"
            /\ UNCHANGED <<brk, dl_result>>
       ELSE /\ attempt' = attempt
            /\ DlFinish(ReturnNone)
    /\ UNCHANGED <<cfg, fnvars, failed_run, trial, now, ticks, calls, entry, slot, dlargs, gets, hist,
                   last_error, mergevars, appvars>>

\* the finished top-level call failed: it raised, returned None, or was answered
\* with an error status
CallFailed ==
    CASE entry = "download" -> dl_result.kind # "return"
      [] entry = "merge" -> merge_result.kind # "return"
      [] OTHER -> response.status >= 400

\* the caller has taken the result (the response is sent): the frames of the
\* finished call are gone
Finish ==
    /\ pc = "done"
    /\ pc' = "idle" /\ entry' = "none"
    /\ ClearDl /\ ClearMerge /\ ClearApp
    /\ failed_run' = IF CallFailed THEN failed_run + 1 ELSE 0
    /\ trial' = FALSE
    /\ UNCHANGED <<cfg, fnvars, brk, now, ticks, calls, seen>>

\* time passes between two top-level calls
TickSteps == {recovery_timeout, recovery_timeout + 1}

Tick ==
    /\ pc = "idle" /\ ticks < MaxTicks
    /\ \E dt \in TickSteps : now' = now + dt
    /\ ticks' = ticks + 1
    /\ UNCHANGED <<cfg, fnvars, failed_run, trial, brk, calls, pc, entry, slot, dlargs, dlvars, dl_result,
                   mergevars, appvars>>

\* -------------------------------------------------- merge_images_from_urls
RECURSIVE LStrip(_)
LStrip(t) == IF t # <<>> /\ t[1] = " " THEN LStrip(Tail(t)) ELSE t

RECURSIVE RStrip(_)
RStrip(t) == IF t # <<>> /\ t[Len(t)] = " " THEN RStrip(SubSeq(t, 1, Len(t) - 1)) ELSE t

\* str.strip()
Strip(t) == RStrip(LStrip(t))

\* url.startswith('http://') or url.startswith('https://')
StartsWithHttp(t) == t # <<>> /\ t[1] \in {"http://", "https://"}

\* bool(url): None, "" and 0 are falsy
UrlTruthy(u) == u.type # "NoneType" /\ (u.type = "str" => u.text # <<>>)

\* validate_image_parameters, for one of url1 / url2: the exception raised, or NoExc
ValidateUrl(u, name) ==
    IF u.type = "NoneType" THEN NoExc                  \* if url1 is not None:
    ELSE IF u.type # "str" \/ Strip(u.text) = <<>>
    THEN Exc("ImageValidationError", <<name, " must be a non-empty string.">>)
    ELSE IF ~StartsWithHttp(u.text)
    THEN Exc("ImageValidationError", <<name, " must be a valid HTTP/HTTPS URL.">>)
    ELSE NoExc

\* validate_image_parameters(url1=url1, url2=url2)
validate_image_parameters(u1, u2) ==
    IF ValidateUrl(u1, "url1") # NoExc THEN ValidateUrl(u1, "url1")
    ELSE ValidateUrl(u2, "url2")

\* lines 556-561: except Exception as e, the last handler of the outer try
MergeFail(e) ==
    IF HAS_ERROR_HANDLER
    THEN Raise(Exc("ProcessingError",
                   <<"An unexpected error occurred during image processing: ">> \o e.msg))
    ELSE ReturnNone

\* raise X inside the outer try: every exception raised in the body ends in the
\* outer handlers; none of those raised is a requests or PIL exception, so the
\* handler reached is except Exception
RaiseInBody(e) == MergeFail(e)

\* lines 321-337: the validation at the head of the body; NoResult when it passes
Validation(u1, u2) ==
    IF HAS_ENHANCED_LOGGING
    THEN IF validate_image_parameters(u1, u2) # NoExc
         THEN RaiseInBody(validate_image_parameters(u1, u2))
         ELSE NoResult
    ELSE IF ~UrlTruthy(u1) \/ u1.type # "str"
    THEN IF HAS_ERROR_HANDLER
         THEN RaiseInBody(Exc("ValidationError", <<"Invalid URL for logo 1">>))
         ELSE ReturnNone
    ELSE IF ~UrlTruthy(u2) \/ u2.type # "str"
    THEN IF HAS_ERROR_HANDLER
         THEN RaiseInBody(Exc("ValidationError", <<"Invalid URL for logo 2">>))
         ELSE ReturnNone
    ELSE NoResult

\* lines 321-340: what the body does before the first download; NoResult when
\* it reaches the download of logo 1
BeforeFetch(u1, u2) ==
    IF Validation(u1, u2) # NoResult THEN Validation(u1, u2)
    ELSE IF u1.type # "str"
    THEN \* line 340: os.path.basename(url1) of None
         RaiseInBody(Exc("TypeError", <<"expected str, bytes or os.PathLike object">>))
    ELSE NoResult

\* where control goes when merge_images_from_urls ends
AfterMerge(e) == IF e = "app" THEN "respond" ELSE "done"

\* the decorated merge_images_from_urls has returned or raised, the breaker being b
MergeEnd(b, e, r) ==
    LET out == IF HAS_ENHANCED_LOGGING
               THEN WrapExit(b, now, "merge_images", r)
               ELSE [b |-> b, r |-> r]
    IN /\ SetBreaker(out.b)
       /\ merge_result' = out.r
       /\ pc' = AfterMerge(e)

\* a call of the decorated merge_images_from_urls(u1, u2) made by entry point e,
\* up to its first GET
MergeBegin(e, u1, u2) ==
    LET adm == IF HAS_ENHANCED_LOGGING THEN CallAdmit(Breaker, now)
               ELSE [admitted |-> TRUE, b |-> Breaker]
    IN /\ url1' = u1 /\ url2' = u2 /\ images' = <<>> /\ decoded' = <<>>
       /\ IF ~adm.admitted
          THEN /\ SetBreaker(adm.b)
               /\ merge_result' = Raise(BreakerOpenError)
               /\ pc' = AfterMerge(e)
               /\ UNCHANGED <<slot, dlargs, dlvars, dl_result>>
          ELSE IF BeforeFetch(u1, u2) # NoResult
          THEN /\ MergeEnd(adm.b, e, BeforeFetch(u1, u2))
               /\ UNCHANGED <<slot, dlargs, dlvars, dl_result>>
          ELSE /\ DlBegin(adm.b, e, 1, u1, MergeMaxRetries, MergeBaseDelay)
               /\ merge_result' = NoResult

\* the URLs a caller may pass
GoodUrl1 == StrUrl(<<"https://", "cdn", "/", "teams", "/", "12910", ".png">>)
GoodUrl2 == StrUrl(<<"https://", "cdn", "/", "teams", "/", "9332", ".png">>)

BadUrls ==
    {NoUrl,
     [type |-> "int", text |-> <<"5">>],
     StrUrl(<<>>),
     StrUrl(<<" ">>),
     StrUrl(<<"ftp://", "cdn", "/", "1", ".png">>)}

IsBadUrl(u) ==
    \/ u.type # "str"
    \/ Strip(u.text) = <<>>
    \/ ~StartsWithHttp(u.text)

\* a caller invokes merge_images_from_urls directly
StartMerge ==
    /\ pc = "idle" /\ calls < MaxCalls
    /\ calls' = calls + 1
    /\ entry' = "merge"
    /\ \E u1 \in BadUrls \cup {GoodUrl1}, u2 \in BadUrls \cup {GoodUrl2} :
          MergeBegin("merge", u1, u2)
    /\ trial' = AdmittedAsTrial
    /\ UNCHANGED <<cfg, fnvars, failed_run, now, ticks, appvars>>

\* a caller invokes merge_images_from_urls with two well-formed URLs, one request
\* after the other, all through the process-wide breaker
BreakerRequest ==
    /\ pc = "idle" /\ calls < MaxBreakerCalls
    /\ calls' = calls + 1
    /\ entry' = "merge"
    /\ MergeBegin("merge", GoodUrl1, GoodUrl2)
    /\ trial' = AdmittedAsTrial
    /\ UNCHANGED <<cfg, fnvars, failed_run, now, ticks, appvars>>

\* the body once the download of the running slot has not delivered a response:
\* lines 343-350 and 367-381 (slot 1), 396-401 and 416-428 (slot 2)
SlotFailure(s, r) ==
    IF r.kind = "return_none"
    THEN IF s = 1 /\ HAS_ENHANCED_LOGGING
         THEN RaiseInBody(Exc("ImageDownloadError", <<"Failed to download logo 1 after retries">>))
         ELSE IF HAS_ERROR_HANDLER
         THEN RaiseInBody(Exc("ProcessingError",
                              <<"Failed to download logo ", ToString(s), " after retries">>))
         ELSE ReturnNone
    ELSE IF r.exc.type = "HTTPError"
    THEN IF s = 1 /\ HAS_ENHANCED_LOGGING
         THEN RaiseInBody(Exc("ImageDownloadError",
                              <<"Failed to fetch logo 1: HTTP error ">>))
         ELSE IF HAS_ERROR_HANDLER
         THEN RaiseInBody(Exc("ResourceNotFoundError",
                              <<"Failed to fetch logo ", ToString(s), ": HTTP error ">>))
         ELSE ReturnNone
    ELSE IF r.exc.type \in {"Timeout", "ConnectionError", "RequestException"}
    THEN IF HAS_ERROR_HANDLER
         THEN RaiseInBody(Exc("ProcessingError",
                              <<"Error processing logo ", ToString(s), ": ">> \o r.exc.msg))
         ELSE ReturnNone
    ELSE \* no inner handler catches it: ImageProcessingError and its subclasses
         RaiseInBody(r.exc)

\* a compositor that goes on to logo 2 when the download of logo 1 failed
EndsRequestOnlyLastSlot(s, r) == r.kind # "return" /\ s = 2

\* lines 343-350, 367-381 (slot 1), 396-401, 416-428 (slot 2): when the download
\* raised or returned None, every branch ends in a raise or in return None
EndsRequest(s, r) == r.kind # "return"

\* the download of the running slot raised or returned None
SlotFailed ==
    /\ pc = "slot_done" /\ EndsRequest(slot, dl_result)
    /\ MergeEnd(Breaker, entry, SlotFailure(slot, dl_result))
    /\ UNCHANGED <<cfg, fnvars, failed_run, trial, now, ticks, calls, entry, slot, dlargs, dlvars, dl_result,
                   url1, url2, images, decoded, appvars>>

\* what Image.open makes of the downloaded (sanitized) bytes
Content(d, w, h, bbox) == [decodable |-> d, w |-> w, h |-> h, bbox |-> bbox]

Contents ==
    {Content(FALSE, 0, 0, <<>>),               \* not an image
     Content(TRUE, 10, 10, <<2, 3, 8, 9>>),    \* transparent border
     Content(TRUE, 10, 10, <<>>),              \* fully transparent
     Content(TRUE, 100, 7, <<0, 0, 100, 7>>)}  \* wide and flat

Image(src, w, h, bbox) == [src |-> src, w |-> w, h |-> h, bbox |-> bbox]
NoImage == Image("None", 0, 0, <<>>)

\* process_image_response: the RGBA image, or None
process_image_response(c) ==
    IF ~c.decodable THEN NoImage                         \* except Exception
    ELSE IF c.w <= 0 \/ c.h <= 0 THEN NoImage
    ELSE Image("decoded", c.w, c.h, c.bbox)

FallbackSize == 200

\* create_fallback_logo(team_id): a circle inset by size[0] // 8 on a transparent
\* 200 x 200 image; drawn is FALSE when both drawing attempts raise
create_fallback_logo(drawn) ==
    LET margin == FallbackSize \div 8
    IN Image("fallback", FallbackSize, FallbackSize,
             IF drawn
             THEN <<margin, margin, FallbackSize - margin + 1, FallbackSize - margin + 1>>
             ELSE <<>>)

Max(a, b) == IF a >= b THEN a ELSE b
Min(a, b) == IF a <= b THEN a ELSE b

\* a team id holding a lone surrogate: str(team_id).encode() raises UnicodeEncodeError
LoneSurrogate == "\\ud800"

\* the identifiers create_fallback_logo is called with
TeamIds == {"1234", "5678", "99", "6", "3", "2", "abc", LoneSurrogate}

\* int(hash_hex[0:2], 16), int(hash_hex[2:4], 16), int(hash_hex[4:6], 16) of
\* hashlib.md5(str(team_id).encode()).hexdigest(); <<>> when encode() raises
hash_hex(team_id) ==
    CASE team_id = "1234" -> <<129, 220, 155>>
      [] team_id = "5678" -> <<103, 79, 60>>
      [] team_id = "99" -> <<172, 98, 122>>
      [] team_id = "6" -> <<22, 121, 9>>
      [] team_id = "3" -> <<236, 203, 200>>
      [] team_id = "2" -> <<200, 30, 114>>
      [] team_id = "abc" -> <<144, 1, 80>>
      [] OTHER -> <<>>

\* the two bounds exchanged: min(80, max(200, x))
ClampSwapped(x) == Min(80, Max(200, x))

\* max(80, min(200, x))
Clamp(x) == Max(80, Min(200, x))

\* the fill of the circle create_fallback_logo draws: (r, g, b) of the try
\* branch, or the gray of the except branch when the hash could not be taken
FallbackFill(team_id) ==
    IF hash_hex(team_id) = <<>> THEN <<128, 128, 128>>
    ELSE <<Clamp(hash_hex(team_id)[1]), Clamp(hash_hex(team_id)[2]),
           Clamp(hash_hex(team_id)[3])>>

\* an image as crop_transparent_border sees it: its mode, its size and the
\* pixels (x, y) that are not fully transparent (alpha # 0); in a mode without
\* alpha every pixel is opaque
Pixels(mode, w, h, opaque) == [mode |-> mode, w |-> w, h |-> h, opaque |-> opaque]
NoPixels == Pixels("None", 0, 0, {})

Grid(w, h) == (0..(w - 1)) \X (0..(h - 1))

\* Image.getbbox() of an image with an alpha channel: (left, upper, right, lower)
\* of the pixels whose alpha is not zero, or None (<<>>) when there is none
getbbox(im) ==
    IF im.opaque = {} THEN <<>>
    ELSE LET xs == {p[1] : p \in im.opaque}
             ys == {p[2] : p \in im.opaque}
             left == CHOOSE x \in xs : \A o \in xs : x <= o
             upper == CHOOSE y \in ys : \A o \in ys : y <= o
             right == CHOOSE x \in xs : \A o \in xs : x >= o
             lower == CHOOSE y \in ys : \A o \in ys : y >= o
         IN <<left, upper, right + 1, lower + 1>>

\* Image.crop(bbox)
crop(im, bbox) ==
    Pixels(im.mode, bbox[3] - bbox[1], bbox[4] - bbox[2],
           {<<p[1] - bbox[1], p[2] - bbox[2]>> :
               p \in {q \in im.opaque : /\ bbox[1] <= q[1] /\ q[1] < bbox[3]
                                         /\ bbox[2] <= q[2] /\ q[2] < bbox[4]}})

\* crop_transparent_border(image), pixel by pixel
CropBorder(im) ==
    IF im.mode # "RGBA" THEN im                      \* if image.mode != 'RGBA'
    ELSE IF getbbox(im) # <<>> THEN crop(im, getbbox(im))
    ELSE im

\* the images crop_transparent_border is exercised on: modes with and without an
\* alpha channel, every pattern of transparent pixels on two small canvases
CropSizes == {<<3, 3>>, <<4, 2>>}

CropInputs ==
    {Pixels(m, z[1], z[2], o) :
        m \in {"RGBA", "LA"}, z \in CropSizes,
        o \in (SUBSET Grid(3, 3)) \cup (SUBSET Grid(4, 2))}
    \cup {Pixels("RGB", z[1], z[2], Grid(z[1], z[2])) : z \in CropSizes}

\* crop_transparent_border, the image being RGBA
crop_transparent_border(img) ==
    IF img.bbox # <<>>
    THEN Image(img.src, img.bbox[3] - img.bbox[1], img.bbox[4] - img.bbox[2],
               <<0, 0, img.bbox[3] - img.bbox[1], img.bbox[4] - img.bbox[2]>>)
    ELSE img

\* a compositor that substitutes nothing for a logo it cannot decode
LogoWithoutFallback(c, drawn) == process_image_response(c)

\* lines 352-365 / 403-414: the decoded image, or the fallback in its place
LogoOrFallback(c, drawn) ==
    IF process_image_response(c) # NoImage THEN process_image_response(c)
    ELSE create_fallback_logo(drawn)

\* the download of the running slot returned a response: decode it (or draw the
\* fallback), crop it, and go on to the next slot or to the canvas
SlotReady ==
    /\ pc = "slot_done" /\ ~EndsRequest(slot, dl_result)
    /\ \E c \in Contents :
          LET image == LogoOrFallback(c, TRUE)
              cropped == crop_transparent_border(image)
          IN /\ decoded' = Append(decoded, process_image_response(c) # NoImage)
             /\ IF cropped.w = 0 /\ cropped.h = 0
                THEN \* lines 385-390 / 432-437
                     /\ MergeEnd(Breaker, entry,
                                 IF HAS_ERROR_HANDLER
                                 THEN RaiseInBody(Exc("ProcessingError",
                                          <<"Logo ", ToString(slot),
                                            " seems to be fully transparent or invalid after cropping.">>))
                                 ELSE ReturnNone)
                     /\ UNCHANGED <<slot, dlargs, dlvars, dl_result, images>>
                ELSE /\ images' = Append(images, cropped)
                     /\ IF slot = 1
                        THEN /\ DlBegin(Breaker, entry, 2, url2, MergeMaxRetries, MergeBaseDelay)
                             /\ UNCHANGED merge_result
                        ELSE \* both responses are consumed: no download frame is left
                             /\ pc' = "compose"
                             /\ ClearDl
                             /\ UNCHANGED <<brk, merge_result>>
    /\ UNCHANGED <<cfg, fnvars, failed_run, trial, now, ticks, calls, entry, url1, url2, appvars>>


\* the (width, height, target_height) among the sizes of LogoSizes for which the
\* float product width * (target_height / float(height)) falls below the exact
\* integer quotient: 90 * (7 / 10.0) = 62.99999999999999
FloatShortfalls == {<<90, 10, 7>>}

\* new_width = int(width * (target_height / float(height))): the floor of
\* w * target / h, or one less where the float product falls short of an exact
\* quotient (computed for the sizes of Contents and LogoSizes)
NewWidth(w, h, target) ==
    IF <<w, h, target>> \in FloatShortfalls
    THEN (w * target) \div h - 1
    ELSE (w * target) \div h

\* a resize step that scales the shorter logo up to the taller one
ResizedToTaller(i1, i2) ==
    LET target == Max(i1.h, i2.h)
    IN IF i1.h < target
       THEN <<[i1 EXCEPT !.w = (i1.w * target) \div i1.h, !.h = target], i2>>
       ELSE IF i2.h < target
       THEN <<i1, [i2 EXCEPT !.w = (i2.w * target) \div i2.h, !.h = target]>>
       ELSE <<i1, i2>>

\* lines 445-464: the two logos after the resize step
Resized(i1, i2) ==
    LET target == Min(i1.h, i2.h)
    IN IF i1.h > target
       THEN IF NewWidth(i1.w, i1.h, target) > 0 /\ target > 0
            THEN <<[i1 EXCEPT !.w = NewWidth(i1.w, i1.h, target), !.h = target], i2>>
            ELSE <<i1, i2>>
       ELSE IF i2.h > target
       THEN IF NewWidth(i2.w, i2.h, target) > 0 /\ target > 0
            THEN <<i1, [i2 EXCEPT !.w = NewWidth(i2.w, i2.h, target), !.h = target]>>
            ELSE <<i1, i2>>
       ELSE <<i1, i2>>

\* a canvas as large as its content, without padding
CanvasUnpadded(l1, l2, target, bg) ==
    LET canvas_size == Max(1, Max(l1.w + l2.w, target))
    IN [src |-> "canvas", mode |-> "RGBA", w |-> canvas_size, h |-> canvas_size,
        background |-> bg,
        logo1 |-> [x |-> 0, y |-> (canvas_size - l1.h) \div 2, w |-> l1.w, h |-> l1.h],
        logo2 |-> [x |-> l1.w, y |-> (canvas_size - l2.h) \div 2, w |-> l2.w, h |-> l2.h]]

\* lines 466-536: the canvas for the two (resized) logos; bg tells whether the
\* background image was pasted
Canvas(l1, l2, target, bg) ==
    LET combined_width == l1.w + l2.w
        combined_height == target
        padding_horizontal == combined_width \div 10
        padding_vertical == combined_height \div 10
        canvas_size == Max(1, Max(combined_width + 2 * padding_horizontal,
                                  combined_height + 2 * padding_vertical))
    IN [src |-> "canvas", mode |-> "RGBA", w |-> canvas_size, h |-> canvas_size,
        background |-> bg,
        logo1 |-> [x |-> padding_horizontal, y |-> (canvas_size - l1.h) \div 2,
                   w |-> l1.w, h |-> l1.h],
        logo2 |-> [x |-> padding_horizontal + l1.w, y |-> (canvas_size - l2.h) \div 2,
                   w |-> l2.w, h |-> l2.h]]

\* the states of the background file: only a valid one is pasted, every other
\* is absorbed by the handlers of lines 481-523
Backgrounds == {"missing", "unreadable", "undecodable", "zero", "valid"}

\* a compositing step that gives up when the background cannot be decoded
CompositeStrictBackground(i1, i2, bgfile) ==
    IF bgfile = "undecodable" THEN ReturnNone
    ELSE Return(Canvas(Resized(i1, i2)[1], Resized(i1, i2)[2], Min(i1.h, i2.h),
                       bgfile = "valid"))

\* lines 439-536: the body once both logos are cropped
Composite(i1, i2, bgfile) ==
    IF i1.h <= 0 \/ i2.h <= 0 THEN ReturnNone
    ELSE LET r == Resized(i1, i2)
         IN IF r[1].w + r[2].w <= 0 \/ Min(i1.h, i2.h) <= 0 THEN ReturnNone
            ELSE Return(Canvas(r[1], r[2], Min(i1.h, i2.h), bgfile = "valid"))

\* resize, canvas, background and paste
Compose ==
    /\ pc = "compose"
    /\ \E bgfile \in Backgrounds :
          MergeEnd(Breaker, entry, Composite(images[1], images[2], bgfile))
    /\ UNCHANGED <<cfg, fnvars, failed_run, trial, now, ticks, calls, entry, slot, dlargs, dlvars, dl_result,
                   url1, url2, images, decoded, appvars>>

\* (width, height) of the cropped logos the compositing step is exercised on
LogoSizes ==
    {<<1, 100>>, <<100, 7>>, <<6, 6>>, <<10, 10>>, <<90, 10>>, <<151, 151>>,
     <<100, 100>>, <<3, 2>>}

CroppedLogos == {Image("decoded", z[1], z[2], <<0, 0, z[1], z[2]>>) : z \in LogoSizes}

\* lines 439-536 for the two cropped logos, with one more state of the background
ComposeAlone ==
    /\ \E bgfile \in Backgrounds :
          /\ \A o \in new_image : o[1] # bgfile
          /\ new_image' = new_image
                 \cup {<<bgfile, Composite(image1_cropped, image2_cropped, bgfile)>>}
    /\ UNCHANGED <<progvars, image_data, sanitized_data, image1_cropped, image2_cropped,
                   fallback_log, image_in, cropped_image, threads>>

\* ----------------------------------------------------- POST /create_avatar
BASE_LOGO_URL == <<"https://", "staticcdn.svenskfotboll.se", "/", "img", "/", "teams", "/">>

\* JSON values of a field
JStr(t) == [t |-> "str", s |-> t]
JNull == [t |-> "null", s |-> <<>>]
JInt(t) == [t |-> "int", s |-> t]

\* str(value)
PyStr(v) == IF v.t = "null" THEN <<"None">> ELSE v.s

Keys == {"team1_id", "team2_id"}

JObject(f) == [type |-> "object", keys |-> DOMAIN f, val |-> f, items |-> <<>>]
JArray(items) == [type |-> "array", keys |-> {}, val |-> <<>>, items |-> items]
JNumber == [type |-> "number", keys |-> {}, val |-> <<>>, items |-> <<>>]
JNoBody == [type |-> "null", keys |-> {}, val |-> <<>>, items |-> <<>>]

FieldValues1 == {JInt(<<"1234">>), JStr(<<" ", "1234", " ">>), JStr(<<>>), JStr(<<" ">>)}
FieldValues2 == {JStr(<<"5678">>), JStr(<<>>)}

\* the parsed bodies request.get_json() may deliver
Bodies ==
    {JNoBody, JNumber, JArray(<<"team1_id", "team2_id">>), JArray(<<"team1_id">>),
     JObject(<<>>)}
    \cup {JObject([k \in {"team1_id"} |-> v]) : v \in FieldValues1}
    \cup {JObject([k \in {"team2_id"} |-> v]) : v \in FieldValues2}
    \cup {JObject([k \in Keys |-> IF k = "team1_id" THEN v1 ELSE v2]) :
              v1 \in FieldValues1, v2 \in FieldValues2}

\* bool(data)
BodyTruthy(d) ==
    CASE d.type = "null" -> FALSE
      [] d.type = "object" -> d.keys # {}
      [] d.type = "array" -> d.items # <<>>
      [] OTHER -> TRUE

\* key in data
Contains(d, key) ==
    CASE d.type = "object" -> key \in d.keys
      [] OTHER -> \E i \in 1..Len(d.items) : d.items[i] = key

JsonError(status, e) ==
    [status |-> status, mimetype |-> "application/json", error |-> e.msg, type |-> e.type]

\* the handlers registered with app.errorhandler, the most specific class first
FlaskHandle(e) ==
    IF e.type = "ImageValidationError" THEN JsonError(400, e)
    ELSE IF e.type \in ImageProcessingErrors THEN JsonError(500, e)
    ELSE JsonError(500, Exc(e.type, <<"Internal server error">>))

PythonTypeError == Exc("TypeError", <<"TypeError">>)

\* lines 92-117: the exception raised before the try, or NoExc
RequestValidation(d) ==
    IF ~BodyTruthy(d)
    THEN Exc("ImageValidationError", <<"Missing JSON body in request">>)
    ELSE IF d.type = "number"
    THEN PythonTypeError                 \* 'team1_id' not in data
    ELSE IF ~Contains(d, "team1_id") \/ ~Contains(d, "team2_id")
    THEN Exc("ImageValidationError",
             <<"Missing required fields: ">>
                 \o (IF Contains(d, "team1_id") THEN <<>> ELSE <<"team1_id">>)
                 \o (IF Contains(d, "team2_id") THEN <<>> ELSE <<"team2_id">>))
    ELSE IF d.type # "object"
    THEN PythonTypeError                 \* data['team1_id']
    ELSE IF Strip(PyStr(d.val["team1_id"])) = <<>>
    THEN Exc("ImageValidationError", <<"team1_id cannot be empty">>)
    ELSE IF Strip(PyStr(d.val["team2_id"])) = <<>>
    THEN Exc("ImageValidationError", <<"team2_id cannot be empty">>)
    ELSE NoExc

\* logo_url = f"{BASE_LOGO_URL}{team_id}.png", team_id = str(data[key]).strip()
LogoUrl(d, key) == StrUrl(BASE_LOGO_URL \o Strip(PyStr(d.val[key])) \o <<".png">>)

\* lines 126-150: the response once merge_images_from_urls returned or raised r
AfterMergeResponse(r) ==
    IF r.kind = "return"
    THEN [status |-> 200, mimetype |-> "image/png", error |-> <<>>, type |-> ""]
    ELSE IF r.kind = "return_none"
    THEN FlaskHandle(Exc("ImageProcessingError", <<"Failed to generate combined avatar image">>))
    ELSE IF r.exc.type \in ImageProcessingErrors
    THEN FlaskHandle(r.exc)
    ELSE FlaskHandle(Exc("ImageProcessingError",
                         <<"Unexpected error during image processing: ">> \o r.exc.msg))

\* POST /create_avatar arrives; app.py imports src.core unconditionally, so the
\* service only runs with HAS_ENHANCED_LOGGING
AppRequest ==
    /\ pc = "idle" /\ calls < MaxCalls /\ HAS_ENHANCED_LOGGING
    /\ calls' = calls + 1
    /\ entry' = "app"
    /\ \E d \in Bodies :
          /\ req' = d
          /\ IF RequestValidation(d) # NoExc
             THEN /\ response' = FlaskHandle(RequestValidation(d))
                  /\ pc' = "done"
                  /\ UNCHANGED <<brk, slot, dlargs, dlvars, dl_result, mergevars>>
             ELSE /\ MergeBegin("app", LogoUrl(d, "team1_id"), LogoUrl(d, "team2_id"))
                  /\ response' = NoResponse
    /\ trial' = (pc' # "done" /\ AdmittedAsTrial)
    /\ UNCHANGED <<cfg, fnvars, failed_run, now, ticks, seen>>

\* merge_images_from_urls has returned or raised: send the response
AppRespond ==
    /\ pc = "respond"
    /\ response' = AfterMergeResponse(merge_result)
    /\ pc' = "done"
    /\ UNCHANGED <<cfg, fnvars, failed_run, trial, brk, now, ticks, calls, entry, slot, dlargs, dlvars, dl_result,
                   mergevars, req, seen>>

\* what a test double of merge_images_from_urls (unittest.mock.patch) does
DoubleTexts == {<<"Test exception">>, <<"/app/assets/secret">>}

DoubleResults ==
    {Return(Image("double", 100, 100, <<>>)), ReturnNone}
    \cup {Raise(Exc(t, m)) : t \in {"Exception", "ImageValidationError", "ImageProcessingError"},
                             m \in DoubleTexts}

\* POST /create_avatar with team_logo_combiner.merge_images_from_urls patched, as
\* tests/test_app.py does
AppRequestPatched ==
    /\ pc = "idle" /\ calls < MaxCalls /\ HAS_ENHANCED_LOGGING
    /\ calls' = calls + 1
    /\ entry' = "app_patched"
    /\ \E d \in Bodies, r \in DoubleResults :
          /\ req' = d
          /\ IF RequestValidation(d) # NoExc
             THEN /\ response' = FlaskHandle(RequestValidation(d))
                  /\ UNCHANGED <<mergevars, seen>>
             ELSE /\ url1' = LogoUrl(d, "team1_id") /\ url2' = LogoUrl(d, "team2_id")
                  /\ images' = <<>> /\ decoded' = <<>>
                  /\ merge_result' = r
                  /\ response' = AfterMergeResponse(r)
                  /\ seen' = IF r.kind = "raise" /\ r.exc.type \notin ImageProcessingErrors
                             THEN seen \cup {<<d, r.exc.type, AfterMergeResponse(r)>>}
                             ELSE seen
    /\ pc' = "done"
    /\ trial' = FALSE
    /\ UNCHANGED <<cfg, fnvars, failed_run, brk, now, ticks, slot, dlargs, dlvars, dl_result>>

\* --------------------------------------------------------- specifications
\* no function is being exercised on its own
NoFnCall ==
    /\ image_data = <<>> /\ sanitized_data = NoResult
    /\ image1_cropped = NoImage /\ image2_cropped = NoImage
    /\ new_image = {}
    /\ fallback_log = <<>>
    /\ image_in = NoPixels /\ cropped_image = NoResult
    /\ threads = <<>>

\* the process after import: a fresh breaker, no call running
InitProgram ==
    /\ failure_count = 0 /\ last_failure_time = None /\ state = "CLOSED"
    /\ now = 0 /\ ticks = 0 /\ calls = 0
    /\ pc = "idle" /\ entry = "none" /\ slot = 0
    /\ url = <<>> /\ max_retries = 0 /\ base_delay = 0
    /\ attempt = 0 /\ gets = 0 /\ sleeps = 0 /\ hist = <<>>
    /\ last_delay = 0 /\ last_error = ""
    /\ dl_result = NoResult
    /\ url1 = NoUrl /\ url2 = NoUrl /\ images = <<>> /\ decoded = <<>>
    /\ merge_result = NoResult
    /\ req = NoRequest /\ response = NoResponse /\ seen = {}
    /\ failed_run = 0 /\ trial = FALSE

Init ==
    /\ HAS_ENHANCED_LOGGING \in BOOLEAN
    /\ HAS_ERROR_HANDLER \in BOOLEAN
    /\ InitProgram
    /\ NoFnCall

\* direct calls of download_with_retry; the function never reads HAS_ERROR_HANDLER
InitDownload == Init /\ HAS_ERROR_HANDLER

NextDownload ==
    \/ StartDownload
    \/ GetSuccess
    \/ GetHttpError
    \/ GetNetworkError
    \/ GetOtherError
    \/ Backoff
    \/ Finish
    \/ Tick

SpecDownload == InitDownload /\ [][NextDownload]_vars

Next ==
    \/ StartMerge
    \/ AppRequest
    \/ AppRequestPatched
    \/ GetSuccess
    \/ GetHttpError
    \/ GetNetworkError
    \/ GetOtherError
    \/ Backoff
    \/ SlotFailed
    \/ SlotReady
    \/ Compose
    \/ AppRespond
    \/ Finish
    \/ Tick

Spec == Init /\ [][Next]_vars

\* process_image_response calls sanitize_image_data(response.content) and tests
\* the result for None (lines 256-261)
Sanitize ==
    /\ sanitized_data = NoResult
    /\ sanitized_data' = IF sanitize_image_data(image_data) = NoBytes
                         THEN ReturnNone
                         ELSE Return(sanitize_image_data(image_data))
    /\ UNCHANGED <<progvars, image_data, image1_cropped, image2_cropped,
                   new_image, fallback_log, image_in, cropped_image, threads>>

\* sanitize_image_data on its own, for every input
InitSanitize ==
    /\ HAS_ENHANCED_LOGGING = TRUE /\ HAS_ERROR_HANDLER = TRUE
    /\ InitProgram
    /\ image_data \in SanitizeInputs /\ sanitized_data = NoResult
    /\ image1_cropped = NoImage /\ image2_cropped = NoImage
    /\ new_image = {}
    /\ fallback_log = <<>>
    /\ image_in = NoPixels /\ cropped_image = NoResult
    /\ threads = <<>>

NextSanitize == Sanitize

SpecSanitize == InitSanitize /\ [][NextSanitize]_vars

\* one call create_fallback_logo(team_id), its fill recorded with the identifier
FallbackCall ==
    /\ Len(fallback_log) < MaxFallbackCalls
    /\ \E team_id \in TeamIds :
          fallback_log' = Append(fallback_log, <<team_id, FallbackFill(team_id)>>)
    /\ UNCHANGED <<progvars, image_data, sanitized_data, image1_cropped, image2_cropped,
                   new_image, image_in, cropped_image, threads>>

\* create_fallback_logo on its own, called repeatedly
InitFallback == HAS_ENHANCED_LOGGING = TRUE /\ HAS_ERROR_HANDLER = TRUE /\ InitProgram /\ NoFnCall

NextFallback == FallbackCall

SpecFallback == InitFallback /\ [][NextFallback]_vars

\* one call crop_transparent_border(image)
Crop ==
    /\ cropped_image = NoResult /\ image_in # NoPixels
    /\ cropped_image' = Return(CropBorder(image_in))
    /\ UNCHANGED <<progvars, image_data, sanitized_data, image1_cropped, image2_cropped,
                   new_image, fallback_log, image_in, threads>>

\* crop_transparent_border on its own, for every input
InitCrop ==
    /\ HAS_ENHANCED_LOGGING = TRUE /\ HAS_ERROR_HANDLER = TRUE
    /\ InitProgram
    /\ image_data = <<>> /\ sanitized_data = NoResult
    /\ image1_cropped = NoImage /\ image2_cropped = NoImage
    /\ new_image = {}
    /\ fallback_log = <<>>
    /\ image_in \in {i \in CropInputs : i.opaque \subseteq Grid(i.w, i.h)}
    /\ cropped_image = NoResult
    /\ threads = <<>>

NextCrop == Crop

SpecCrop == InitCrop /\ [][NextCrop]_vars

\* --- concurrent requests: each thread makes one call of a wrapped function
\* through the process-wide breaker; a thread switch can fall between any two
\* reads or writes of the breaker's attributes (no lock is taken)
Threads == 1..MaxThreads

ThreadAt(t, p) == threads[t].pc = p
Goto(t, p) == threads' = [threads EXCEPT ![t].pc = p]

\* all that a step of a thread leaves alone, the breaker and the threads aside
ThreadFrame ==
    UNCHANGED <<cfg, now, ticks, calls, pc, entry, slot, dlargs, dlvars, dl_result,
                mergevars, appvars, failed_run, trial, image_data, sanitized_data,
                image1_cropped, image2_cropped, new_image, fallback_log, image_in,
                cropped_image>>

\* lines 58-62: the admission test of call
ThreadAdmit ==
    /\ \E t \in Threads :
          /\ ThreadAt(t, "call")
          /\ SetBreaker(CallAdmit(Breaker, now).b)
          /\ IF CallAdmit(Breaker, now).admitted
             THEN Goto(t, "func")
             ELSE threads' = [threads EXCEPT ![t].pc = "end", ![t].outcome = "rejected"]
    /\ ThreadFrame

\* line 65: func returns or raises
ThreadFunc ==
    /\ \E t \in Threads, o \in {"success", "failure"} :
          /\ ThreadAt(t, "func")
          /\ threads' = [threads EXCEPT ![t].outcome = o,
                                         ![t].pc = IF o = "success" THEN "reset_count"
                                                   ELSE "load_count"]
    /\ UNCHANGED brk
    /\ ThreadFrame

\* line 74: self.failure_count = 0
OnSuccessCount ==
    /\ \E t \in Threads : ThreadAt(t, "reset_count") /\ Goto(t, "close")
    /\ failure_count' = 0
    /\ UNCHANGED <<last_failure_time, state>>
    /\ ThreadFrame

\* line 75: self.state = 'CLOSED'
OnSuccessState ==
    /\ \E t \in Threads : ThreadAt(t, "close") /\ Goto(t, "end")
    /\ state' = "CLOSED"
    /\ UNCHANGED <<failure_count, last_failure_time>>
    /\ ThreadFrame

\* line 79, self.failure_count += 1: the attribute is loaded
OnFailureLoad ==
    /\ \E t \in Threads :
          /\ ThreadAt(t, "load_count")
          /\ threads' = [threads EXCEPT ![t].loaded = failure_count, ![t].pc = "store_count"]
    /\ UNCHANGED brk
    /\ ThreadFrame

\* line 79, self.failure_count += 1: the sum is stored
OnFailureStore ==
    /\ \E t \in Threads :
          /\ ThreadAt(t, "store_count")
          /\ failure_count' = threads[t].loaded + 1
          /\ Goto(t, "set_time")
    /\ UNCHANGED <<last_failure_time, state>>
    /\ ThreadFrame

\* line 80: self.last_failure_time = time.time()
OnFailureTime ==
    /\ \E t \in Threads : ThreadAt(t, "set_time") /\ Goto(t, "test_count")
    /\ last_failure_time' = now
    /\ UNCHANGED <<failure_count, state>>
    /\ ThreadFrame

\* line 82: if self.failure_count >= self.failure_threshold
OnFailureTest ==
    /\ \E t \in Threads :
          /\ ThreadAt(t, "test_count")
          /\ Goto(t, IF failure_count >= failure_threshold THEN "open" ELSE "end")
    /\ UNCHANGED brk
    /\ ThreadFrame

\* line 83: self.state = 'OPEN'
OnFailureOpen ==
    /\ \E t \in Threads : ThreadAt(t, "open") /\ Goto(t, "end")
    /\ state' = "OPEN"
    /\ UNCHANGED <<failure_count, last_failure_time>>
    /\ ThreadFrame

\* the process after failed_run calls, one after the other, have failed (fewer
\* than the threshold), at the moment MaxThreads requests arrive together
InitConcurrent ==
    /\ HAS_ENHANCED_LOGGING = TRUE /\ HAS_ERROR_HANDLER = TRUE
    /\ failed_run \in 0..(failure_threshold - 1)
    /\ failure_count = failed_run
    /\ last_failure_time = (IF failed_run = 0 THEN None ELSE 0)
    /\ state = "CLOSED"
    /\ now = 0 /\ ticks = 0 /\ calls = failed_run
    /\ pc = "idle" /\ entry = "none" /\ slot = 0
    /\ url = <<>> /\ max_retries = 0 /\ base_delay = 0
    /\ attempt = 0 /\ gets = 0 /\ sleeps = 0 /\ hist = <<>>
    /\ last_delay = 0 /\ last_error = ""
    /\ dl_result = NoResult
    /\ url1 = NoUrl /\ url2 = NoUrl /\ images = <<>> /\ decoded = <<>>
    /\ merge_result = NoResult
    /\ req = NoRequest /\ response = NoResponse /\ seen = {}
    /\ trial = FALSE
    /\ image_data = <<>> /\ sanitized_data = NoResult
    /\ image1_cropped = NoImage /\ image2_cropped = NoImage
    /\ new_image = {}
    /\ fallback_log = <<>>
    /\ image_in = NoPixels /\ cropped_image = NoResult
    /\ threads = [t \in Threads |-> [pc |-> "call", outcome |-> "", loaded |-> 0]]

NextConcurrent ==
    \/ ThreadAdmit
    \/ ThreadFunc
    \/ OnSuccessCount
    \/ OnSuccessState
    \/ OnFailureLoad
    \/ OnFailureStore
    \/ OnFailureTime
    \/ OnFailureTest
    \/ OnFailureOpen

SpecConcurrent == InitConcurrent /\ [][NextConcurrent]_vars

\* the compositing step on its own, for every pair of cropped logos
InitCompose ==
    /\ HAS_ENHANCED_LOGGING = TRUE /\ HAS_ERROR_HANDLER = TRUE
    /\ InitProgram
    /\ image_data = <<>> /\ sanitized_data = NoResult
    /\ image1_cropped \in CroppedLogos /\ image2_cropped \in CroppedLogos
    /\ new_image = {}
    /\ fallback_log = <<>>
    /\ image_in = NoPixels /\ cropped_image = NoResult
    /\ threads = <<>>

NextCompose == ComposeAlone

SpecCompose == InitCompose /\ [][NextCompose]_vars

\* a sequence of requests against the breaker, in the build the repository ships
InitBreaker == Init /\ HAS_ENHANCED_LOGGING /\ HAS_ERROR_HANDLER

NextBreaker ==
    \/ BreakerRequest
    \/ GetSuccess
    \/ GetHttpError
    \/ GetNetworkError
    \/ GetOtherError
    \/ Backoff
    \/ SlotFailed
    \/ SlotReady
    \/ Compose
    \/ Finish
    \/ Tick

SpecBreaker == InitBreaker /\ [][NextBreaker]_vars

\* ------------------------------------------------------------------ claims
\* a download_with_retry call has returned or raised
DlDone == dl_result.kind # "none"

\* the failure kinds that mean "the download failed": ImageDownloadError, or in
\* the legacy build the requests exception re-raised by the bare raise
IsDownloadFailure(e) ==
    IF HAS_ENHANCED_LOGGING THEN e.type = "ImageDownloadError"
    ELSE e.type \in {"HTTPError", "Timeout", "ConnectionError"}

AllRetryable(h) == \A i \in 1..Len(h) : h[i] = "retryable"

Front(h) == SubSeq(h, 1, Len(h) - 1)

\* C1: when the first GET of download_with_retry (max_retries >= 0) answers
\* with a status in 400..499, the call has failed with a download failure after
\* exactly 1 GET and 0 sleeps: the answer is never retried.
C1_ClientErrorNeverRetried ==
    (max_retries >= 0 /\ hist # <<>> /\ hist[1] = "client") =>
        /\ dl_result.kind = "raise"
        /\ IsDownloadFailure(dl_result.exc)
        /\ gets = 1 /\ sleeps = 0

C3_SuccessAfterRetries ==
    /\ (hist # <<>> /\ hist[Len(hist)] = "success" /\ AllRetryable(Front(hist))) =>
          /\ dl_result.kind = "return"
          /\ dl_result.value.id = Len(hist)
          /\ gets = Len(hist)
          /\ sleeps = Len(hist) - 1
          /\ Len(hist) - 1 <= max_retries
    /\ (pc = "dl_get" /\ AllRetryable(hist)) => sleeps = gets
    /\ (pc = "dl_sleep" /\ AllRetryable(hist)) => sleeps = gets - 1

C3_Witness ==
    /\ dl_result.kind = "return" /\ Len(hist) = 3 /\ AllRetryable(Front(hist))
    /\ dl_result.value.id = 3 /\ sleeps = 2

\* merge_images_from_urls has returned or raised
MergeDone == merge_result.kind # "none"

\* a logo could not be decoded from a response the fetch delivered
DecodeFailed == \E i \in 1..Len(decoded) : ~decoded[i]

\* C4: when both fetches of merge_images_from_urls succeed, a decode failure in
\* either slot or in both never fails the call: the fallback logo stands in for
\* that slot and the call returns a composite RGBA image, never None or an
\* error. The only failure after a decode failure is a failed fetch of logo 2.
C4_DecodeFailureNeverFails ==
    /\ (Len(decoded) = 2 /\ DecodeFailed /\ MergeDone) =>
          /\ merge_result.kind = "return"
          /\ merge_result.value.mode = "RGBA"
          /\ merge_result.value.w > 0 /\ merge_result.value.h > 0
          /\ Len(images) = 2
          /\ \A i \in 1..2 : ~decoded[i] => images[i].src = "fallback"
    /\ (DecodeFailed /\ MergeDone /\ merge_result.kind # "return") =>
          Len(decoded) = 1 /\ slot = 2 /\ dl_result.kind # "return"

C4_Witness ==
    /\ Len(decoded) = 2 /\ ~decoded[1] /\ ~decoded[2]
    /\ merge_result.kind = "return" /\ merge_result.value.mode = "RGBA"
    /\ images[1].src = "fallback" /\ images[2].src = "fallback"

\* the build the repository ships: src.core and error_handler both importable
ShippedBuild == HAS_ENHANCED_LOGGING /\ HAS_ERROR_HANDLER

\* C5: in the shipped build, when either URL passed to merge_images_from_urls is missing, not a
\* string, empty or whitespace-only, or does not start with http:// or
\* https://, the call raises ImageValidationError: no other failure kind, no
\* returned value.
C5_InvalidUrlIsValidationFailure ==
    (ShippedBuild /\ entry = "merge" /\ MergeDone
        /\ (IsBadUrl(url1) \/ IsBadUrl(url2))) =>
        /\ merge_result.kind = "raise"
        /\ merge_result.exc.type = "ImageValidationError"

\* the fetch of the running slot ended terminally: a status that is not
\* retried, or the last attempt failed
TerminalFetchFailure ==
    /\ slot \in {1, 2} /\ dl_result.kind = "raise"
    /\ hist # <<>> /\ hist[Len(hist)] \in {"client", "retryable"}

\* C6: in the shipped build, when the fetch of logo 1 or of logo 2 ends terminally, the failure that
\* leaves merge_images_from_urls is an ImageDownloadError, for either slot.
C6_FetchFailureIsDownloadError ==
    (ShippedBuild /\ entry \in {"merge", "app"} /\ MergeDone /\ TerminalFetchFailure) =>
        /\ merge_result.kind = "raise"
        /\ merge_result.exc.type = "ImageDownloadError"

\* C7: with error_handler importable, merge_images_from_urls raises
\* error_handler.ProcessingError when a logo fetch answers with a client error
\* (404) and when the fetch attempts end in a connection error with the retries
\* exhausted.
C7_FetchFailureIsProcessingError ==
    (/\ HAS_ERROR_HANDLER /\ entry = "merge" /\ MergeDone /\ TerminalFetchFailure
     /\ \/ hist[Len(hist)] = "client"
        \/ (AllRetryable(hist) /\ last_error = "ConnectionError"
             /\ gets = max_retries + 1)) =>
        /\ merge_result.kind = "raise"
        /\ merge_result.exc.type = "ProcessingError"

\* POST /create_avatar has sent its response
Answered == entry \in {"app", "app_patched"} /\ pc = "done"

\* C8: in the shipped build, a request to POST /create_avatar whose logo fetch failed with an
\* upstream HTTP or connection error is answered 502, one whose logo fetch
\* timed out is answered 504.
C8_UpstreamFailureStatuses ==
    (ShippedBuild /\ entry = "app" /\ pc = "done" /\ TerminalFetchFailure) =>
        /\ (last_error = "Timeout" => response.status = 504)
        /\ (last_error \in {"HTTPError", "ConnectionError"} => response.status = 502)

\* the body has no value for the key
LacksId(d, key) == ~(d.type = "object" /\ key \in d.keys)

\* the value of the key is blank after trimming
BlankId(d, key) ==
    d.type = "object" /\ key \in d.keys /\ Strip(PyStr(d.val[key])) = <<>>

\* the requests the endpoint is to refuse
BadRequest(d) ==
    \/ ~BodyTruthy(d)
    \/ LacksId(d, "team1_id") \/ LacksId(d, "team2_id")
    \/ BlankId(d, "team1_id") \/ BlankId(d, "team2_id")

\* merge_images_from_urls was called for the running request
MergeCalled == url1 # NoUrl

\* C9: every request to POST /create_avatar gets exactly one outcome: 400 with
\* a JSON error when the body is empty, lacks team1_id or team2_id or has a
\* blank id (merge_images_from_urls is then not called); 500 with a JSON error
\* when merge_images_from_urls returns None or raises; 200 with mimetype
\* image/png otherwise, the two ids being in the first and second URL passed.
C9_ExactlyOneOutcome ==
    Answered =>
        IF BadRequest(req)
        THEN /\ response.status = 400
             /\ response.mimetype = "application/json" /\ response.error # <<>>
             /\ ~MergeCalled
        ELSE /\ MergeCalled
             /\ url1 = LogoUrl(req, "team1_id") /\ url2 = LogoUrl(req, "team2_id")
             /\ IF merge_result.kind \in {"return_none", "raise"}
                THEN /\ response.status = 500
                     /\ response.mimetype = "application/json" /\ response.error # <<>>
                ELSE /\ response.status = 200
                     /\ response.mimetype = "image/png"

\* C10: when merge_images_from_urls raises an unexpected exception, the 500
\* response does not depend on the exception's message: two requests with the
\* same body whose exceptions differ only in their text get the same response.
C10_BodyIndependentOfMessage ==
    \A a, b \in seen : (a[1] = b[1] /\ a[2] = b[2]) => a[3] = b[3]

\* C11: starting from a fresh breaker, after a run of merge_images_from_urls
\* requests that all failed (no successful request in between), the breaker is
\* OPEN exactly when the run has at least failure_threshold requests; with fewer
\* it is still CLOSED.
C11_OpensAtThreshold ==
    (pc = "idle" /\ failed_run = calls) =>
        /\ (calls >= failure_threshold => state = "OPEN")
        /\ (calls < failure_threshold => state = "CLOSED")

\* the breaker is OPEN and at most recovery_timeout seconds have passed since the
\* last recorded failure
InCooldown == state = "OPEN" /\ now - last_failure_time <= recovery_timeout

\* a step in which a caller invokes a protected function
ProtectedCallStarts ==
    /\ pc = "idle" /\ pc' # "idle"
    /\ entry' \in {"download", "merge", "app"}
    /\ (entry' = "app" => url1' # NoUrl)

\* C12: while the breaker is OPEN and at most recovery_timeout seconds have
\* passed since the last recorded failure, every protected call is rejected
\* with ImageProcessingError without running the wrapped function (no GET is
\* issued), and failure_count, last_failure_time and state stay as they were.
C12_OpenRejects ==
    [][(HAS_ENHANCED_LOGGING /\ InCooldown /\ ProtectedCallStarts) =>
          /\ UNCHANGED brk
          /\ gets' = 0 /\ hist' = <<>>
          /\ pc' = (IF entry' = "app" THEN "respond" ELSE "done")
          /\ (entry' = "download" => dl_result' = Raise(BreakerOpenError))
          /\ (entry' # "download" => merge_result' = Raise(BreakerOpenError))]_vars

C12_Witness ==
    /\ pc = "done" /\ entry = "merge"
    /\ merge_result = Raise(BreakerOpenError)
    /\ state = "OPEN" /\ now - last_failure_time = recovery_timeout
    /\ gets = 0

\* C13: while the state is HALF_OPEN and the trial call is executing, no second
\* protected call (here: the download nested inside the trial) executes its
\* wrapped function before the trial has finished.
C13_SingleTrial ==
    ~(/\ state = "HALF_OPEN"
      /\ entry \in {"merge", "app"} /\ merge_result.kind = "none"
      /\ pc \in {"dl_get", "dl_sleep"})

RECURSIVE TrailingNulls(_)
\* the number K of null bytes at the end of the data
TrailingNulls(data) ==
    IF data # <<>> /\ data[Len(data)] = 0
    THEN 1 + TrailingNulls(SubSeq(data, 1, Len(data) - 1))
    ELSE 0

\* sanitize_image_data has returned
Sanitized == sanitized_data.kind = "return"

\* C14: every input of sanitize_image_data that begins with the 8-byte PNG
\* signature is returned byte for byte, whatever null bytes it holds.
C14_PngUnchanged ==
    (Sanitized /\ StartsWith(image_data, PNG_SIGNATURE)) =>
        sanitized_data.value = image_data

C14_Witness ==
    /\ Sanitized /\ StartsWith(image_data, PNG_SIGNATURE)
    /\ TrailingNulls(image_data) >= 2
    /\ \E i \in 9..(Len(image_data) - 3) : image_data[i] = 0
    /\ sanitized_data.value = image_data

\* C15: for every input that does not begin with the PNG signature, the result
\* of sanitize_image_data is the input without its K >= 0 trailing null bytes:
\* the first Len - K bytes are unchanged, leading and interior nulls included;
\* with no trailing null the input is returned as it is.
C15_OnlyTrailingNullsRemoved ==
    (Sanitized /\ ~StartsWith(image_data, PNG_SIGNATURE)) =>
        /\ Len(sanitized_data.value) = Len(image_data) - TrailingNulls(image_data)
        /\ \A i \in 1..Len(sanitized_data.value) : sanitized_data.value[i] = image_data[i]
        /\ (TrailingNulls(image_data) = 0 => sanitized_data.value = image_data)

C15_Witness ==
    /\ Sanitized /\ StartsWith(image_data, JPEG_SIGNATURE)
    /\ TrailingNulls(image_data) = 2 /\ Len(image_data) = 7
    /\ image_data[4] = 0 /\ image_data[5] # 0
    /\ Len(sanitized_data.value) = Len(image_data) - 2
    /\ sanitized_data.value[4] = 0

\* the canvases the compositing step returned for the two cropped logos
Canvases == {o[2].value : o \in {x \in new_image : x[2].kind = "return"}}

\* min(height1, height2) of the two cropped logos
TargetHeight == Min(image1_cropped.h, image2_cropped.h)

\* max(1, cw + 2 * floor(cw / 10), ch + 2 * floor(ch / 10))
CanvasSide(cw, ch) == Max(1, Max(cw + 2 * (cw \div 10), ch + 2 * (ch \div 10)))

\* C16: for every pair of cropped logos with positive width and height the
\* compositing step returns a square canvas of side
\* max(1, cw + 2*floor(cw/10), ch + 2*floor(ch/10)), cw the sum of the two
\* widths after the resize step and ch = min(height1, height2); so side >= cw.
C16_SquareCanvas ==
    /\ \A o \in new_image : o[2].kind = "return"
    /\ \A v \in Canvases :
          /\ v.w = v.h
          /\ v.w = CanvasSide(v.logo1.w + v.logo2.w, TargetHeight)
          /\ v.w >= v.logo1.w + v.logo2.w

C16_Witness ==
    /\ image1_cropped.w = 100 /\ image1_cropped.h = 7
    /\ image2_cropped.w = 6 /\ image2_cropped.h = 6
    /\ \E v \in Canvases : v.w = 109 /\ v.h = 109 /\ v.logo1.w + v.logo2.w = 91

\* the logo of the slot has the size it had after cropping
Unresized(l, img) == l.w = img.w /\ l.h = img.h

\* C17: at most one logo is resized per request: only a logo whose cropped
\* height is strictly greater than min(height1, height2) is resized, the other
\* keeps its cropped size; with equal heights neither is resized.
C17_AtMostOneResized ==
    \A v \in Canvases :
        /\ (~Unresized(v.logo1, image1_cropped) =>
               image1_cropped.h > TargetHeight /\ Unresized(v.logo2, image2_cropped))
        /\ (~Unresized(v.logo2, image2_cropped) =>
               image2_cropped.h > TargetHeight /\ Unresized(v.logo1, image1_cropped))
        /\ (image1_cropped.h = image2_cropped.h =>
               Unresized(v.logo1, image1_cropped) /\ Unresized(v.logo2, image2_cropped))

C17_Witness ==
    /\ image1_cropped.w = 151 /\ image1_cropped.h = 151
    /\ image2_cropped.w = 10 /\ image2_cropped.h = 10
    /\ \E v \in Canvases :
          /\ v.logo1.w = 10 /\ v.logo1.h = 10
          /\ Unresized(v.logo2, image2_cropped)

\* round(a / b) for positive b, halves to the even neighbour
RoundDiv(a, b) ==
    LET q == a \div b
        r == a % b
    IN IF 2 * r < b THEN q
       ELSE IF 2 * r > b THEN q + 1
       ELSE IF q % 2 = 0 THEN q ELSE q + 1

\* C18: the logo whose height is greater than target_height is resized to
\* exactly (round(width * target_height / height), target_height).
C18_ResizeRounds ==
    \A v \in Canvases :
        /\ (image1_cropped.h > TargetHeight =>
               /\ v.logo1.w = RoundDiv(image1_cropped.w * TargetHeight, image1_cropped.h)
               /\ v.logo1.h = TargetHeight)
        /\ (image2_cropped.h > TargetHeight =>
               /\ v.logo2.w = RoundDiv(image2_cropped.w * TargetHeight, image2_cropped.h)
               /\ v.logo2.h = TargetHeight)

\* C19: background handling is never fatal: for the same two logos the
\* compositing step ends in the same outcome and, on success, with the same
\* canvas size and logo positions, whether the background file is missing,
\* unreadable, undecodable, zero-sized or valid.
C19_BackgroundNeverFatal ==
    \A a, b \in new_image :
        /\ a[2].kind = b[2].kind
        /\ (a[2].kind = "return" =>
               /\ a[2].value.w = b[2].value.w /\ a[2].value.h = b[2].value.h
               /\ a[2].value.logo1 = b[2].value.logo1
               /\ a[2].value.logo2 = b[2].value.logo2)

C19_Witness ==
    /\ {o[1] : o \in new_image} = Backgrounds
    /\ \E a, b \in new_image :
          /\ a[1] = "valid" /\ a[2].kind = "return" /\ a[2].value.background
          /\ b[1] = "undecodable" /\ b[2].kind = "return" /\ ~b[2].value.background
          /\ a[2].value.w = b[2].value.w

\* the calls of create_fallback_logo made so far
FallbackCalls == {fallback_log[i] : i \in 1..Len(fallback_log)}

\* two calls with the same identifier drew the same fill
SameIdSameFill == \A a, b \in FallbackCalls : a[1] = b[1] => a[2] = b[2]

\* the byte brought into [80, 200]
Clamped(x) == IF x < 80 THEN 80 ELSE IF x > 200 THEN 200 ELSE x

\* C20: the fill colour of create_fallback_logo is a function of the team
\* identifier alone, and each channel equals the corresponding hash byte
\* clamped into [80, 200], so 80 <= R, G, B <= 200 for every identifier.
C20_FillIsClampedHash ==
    /\ SameIdSameFill
    /\ \A a \in FallbackCalls : \A k \in 1..3 :
          /\ hash_hex(a[1]) # <<>>
          /\ a[2][k] = Clamped(hash_hex(a[1])[k])
          /\ a[2][k] \in 80..200

\* C20 as amended: the fill colour is a function of the team identifier alone;
\* each channel equals the corresponding hash byte clamped into [80, 200], or
\* is 128 when hashing the identifier raises; so 80 <= R, G, B <= 200.
C20_FillIsClampedHashOrGray ==
    /\ SameIdSameFill
    /\ \A a \in FallbackCalls : \A k \in 1..3 :
          /\ (hash_hex(a[1]) # <<>> => a[2][k] = Clamped(hash_hex(a[1])[k]))
          /\ (hash_hex(a[1]) = <<>> => a[2][k] = 128)
          /\ a[2][k] \in 80..200

C20_Witness ==
    /\ Len(fallback_log) = 3
    /\ fallback_log[1] = <<"1234", <<129, 200, 155>>>>
    /\ fallback_log[2] = <<LoneSurrogate, <<128, 128, 128>>>>
    /\ fallback_log[3] = <<"1234", <<129, 200, 155>>>>

\* C21: merge_images_from_urls processes the slots strictly in sequence: every
\* GET for logo 1 (with its retries and sleeps) happens before the first GET for
\* logo 2, and if slot 1 ends in a failure no GET for logo 2 is ever issued.
C21_SlotsInSequence ==
    [][/\ (slot = 2 => slot' # 1)
       /\ (gets' # gets /\ gets' # 0 => pc = "dl_get" /\ slot' = slot /\ gets' = gets + 1)
       /\ (pc = "dl_sleep" => slot' = slot /\ pc' = "dl_get")
       /\ (slot' = 2 /\ slot # 2 =>
              /\ slot = 1 /\ pc = "slot_done" /\ dl_result.kind = "return"
              /\ Len(images') = 1 /\ gets' = 0)
       /\ (slot = 1 /\ pc = "slot_done" /\ dl_result.kind # "return" =>
              slot' = 1 /\ pc' \notin {"dl_get", "dl_sleep", "slot_done", "compose"})]_vars

C21_Witness ==
    /\ entry = "merge" /\ slot = 2 /\ pc = "dl_sleep" /\ gets = 2
    /\ Len(images) = 1 /\ merge_result.kind = "none"

\* the mode has an alpha channel
HasAlpha(mode) == mode \in {"RGBA", "LA"}

\* the smallest rectangle (left, upper, right, lower) holding every pixel of S
BoundingBox(S) ==
    CHOOSE b \in (0..4) \X (0..4) \X (0..4) \X (0..4) :
        /\ \A p \in S : b[1] <= p[1] /\ p[1] < b[3] /\ b[2] <= p[2] /\ p[2] < b[4]
        /\ \E p \in S : p[1] = b[1]
        /\ \E p \in S : p[1] = b[3] - 1
        /\ \E p \in S : p[2] = b[2]
        /\ \E p \in S : p[2] = b[4] - 1

\* C22: for an alpha-capable image with at least one pixel that is not fully
\* transparent, crop_transparent_border returns exactly the bounding box of
\* those pixels; an image whose mode lacks alpha, or that is fully transparent,
\* is returned unchanged; no error is raised.
C22_CropIsBoundingBox ==
    cropped_image # NoResult =>
        /\ cropped_image.kind = "return"
        /\ IF HasAlpha(image_in.mode) /\ image_in.opaque # {}
           THEN LET b == BoundingBox(image_in.opaque)
                IN /\ cropped_image.value.w = b[3] - b[1]
                   /\ cropped_image.value.h = b[4] - b[2]
                   /\ cropped_image.value.opaque =
                          {<<p[1] - b[1], p[2] - b[2]>> : p \in image_in.opaque}
           ELSE cropped_image.value = image_in

\* C23: the sleep that follows failed attempt number a (0-based, a < max_retries)
\* of download_with_retry lasts between 1.10 and 1.30 times base_delay * 2^a:
\* the nominal delays double from one retry to the next and the first is based
\* on base_delay itself.
C23_BackoffWindow ==
    [][sleeps' = sleeps + 1 =>
          /\ attempt < max_retries /\ attempt = sleeps
          /\ 110 * base_delay * 2^attempt <= 100 * last_delay'
          /\ 100 * last_delay' <= 130 * base_delay * 2^attempt]_vars

C23_Witness ==
    /\ sleeps = 3 /\ attempt = 3 /\ base_delay = MergeBaseDelay
    /\ last_delay = 10400 /\ pc = "dl_get"

\* C24: when a protected call is admitted after the cooldown (state HALF_OPEN),
\* its success sets the state to CLOSED with failure_count = 0, and its failure
\* sets the state back to OPEN and restarts the cooldown from the time of that
\* failure.
C24_TrialOutcome ==
    (trial /\ pc = "done") =>
        IF CallFailed
        THEN state = "OPEN" /\ last_failure_time = now
        ELSE state = "CLOSED" /\ failure_count = 0

\* every concurrent call has returned or raised
AllEnded == \A t \in Threads : threads[t].pc = "end"

\* the concurrent calls whose func raised
FailedThreads == {t \in Threads : threads[t].outcome = "failure"}

\* C25: the shared breaker is correct without locks under concurrent requests:
\* in every interleaving in which the calls that bring the failures up to
\* failure_threshold fail and none succeeds, no failure increment is lost and
\* the breaker ends OPEN; and no interleaving of a success with a failure
\* leaves it OPEN with failure_count below the threshold.
C25_LockFreeBreaker ==
    AllEnded =>
        /\ ((\A t \in Threads : threads[t].outcome # "success") =>
               /\ failure_count = failed_run + Cardinality(FailedThreads)
               /\ (failed_run + Cardinality(FailedThreads) >= failure_threshold =>
                      state = "OPEN"))
        /\ ~(state = "OPEN" /\ failure_count < failure_threshold)

\* the pasted logo lies inside a canvas of the given side
Inside(l, side) ==
    /\ l.x >= 0 /\ l.y >= 0
    /\ l.x + l.w <= side /\ l.y + l.h <= side

\* C26: on every successful return both logos were pasted entirely inside the
\* canvas (x >= 0, y >= 0, x + width <= canvas_size, y + height <= canvas_size)
\* and both pasted logos have height target_height = min(height1, height2), for
\* all cropped logo sizes with positive width and height.
C26_PastedInsideCanvas ==
    \A v \in Canvases :
        /\ Inside(v.logo1, v.w) /\ Inside(v.logo2, v.w)
        /\ v.logo1.h = TargetHeight /\ v.logo2.h = TargetHeight

C29_BreakerInvariant ==
    /\ state \in {"CLOSED", "OPEN", "HALF_OPEN"}
    /\ (state = "OPEN" =>
          failure_count >= failure_threshold /\ last_failure_time # None)
    /\ (state = "CLOSED" => failure_count < failure_threshold)

C29_Witness ==
    /\ state = "OPEN" /\ failure_count > failure_threshold /\ pc = "done"
    /\ trial /\ last_failure_time = now /\ now > recovery_timeout

\* this step, an exception leaves the wrapped download_with_retry
DownloadRaises == dl_result.kind # "raise" /\ dl_result'.kind = "raise"

\* this step, an exception leaves the wrapped merge_images_from_urls
MergeRaises ==
    /\ merge_result.kind # "raise" /\ merge_result'.kind = "raise"
    /\ entry' # "app_patched"

\* this step, one failure is recorded on the breaker
RecordsOneFailure ==
    failure_count' = failure_count + 1 /\ last_failure_time' = now

\* this step starts a top-level call that the open breaker turns away
RejectedStart == pc = "idle" /\ InCooldown

\* C30: every exception that leaves a function wrapped by
\* handle_image_processing_errors is an ImageProcessingError or one of its
\* subclasses, and each such exit records exactly one failure on the breaker.
C30_WrappedExits ==
    [][HAS_ENHANCED_LOGGING =>
          /\ (DownloadRaises =>
                 dl_result'.exc.type \in ImageProcessingErrors /\ RecordsOneFailure)
          /\ (MergeRaises =>
                 merge_result'.exc.type \in ImageProcessingErrors /\ RecordsOneFailure)]_vars

\* C30 as amended: every exception that leaves a wrapped function is an
\* ImageProcessingError or one of its subclasses, any other exception raised
\* inside being replaced by a plain ImageProcessingError; each such exit records
\* exactly one failure on the breaker, except the rejection by an open breaker,
\* which records none.
C30_WrappedExitsButRejection ==
    [][HAS_ENHANCED_LOGGING =>
          /\ (DownloadRaises =>
                 /\ dl_result'.exc.type \in ImageProcessingErrors
                 /\ ~RejectedStart /\ RecordsOneFailure
                 /\ (last_error' = "RequestException" =>
                        /\ dl_result'.exc.type = "ImageProcessingError"
                        /\ dl_result'.exc.msg[1] = "Unexpected error in "))
          /\ (MergeRaises =>
                 /\ merge_result'.exc.type \in ImageProcessingErrors
                 /\ IF RejectedStart
                    THEN merge_result' = Raise(BreakerOpenError) /\ UNCHANGED brk
                    ELSE /\ RecordsOneFailure
                         /\ merge_result'.exc.type = "ImageProcessingError"
                         /\ merge_result'.exc.msg[1] = "Unexpected error in ")]_vars

C30_Witness ==
    /\ pc = "done" /\ calls = 1 /\ failure_count = 2
    /\ last_error = "RequestException"
    /\ dl_result.kind = "raise" /\ dl_result.exc.type = "ImageProcessingError"
    /\ merge_result.kind = "raise" /\ merge_result.exc.type = "ImageProcessingError"
    /\ merge_result.exc.msg[1] = "Unexpected error in "

====
